---- MODULE Spec2Model ----
(***************************************************************************)
(* Model of the interactive venue map viewer (PathfindingVisualization,    *)
(* src/unnamed/part_003 lines 221-1185): camera (zoom / pan), pointer      *)
(* session, view mode, selection matching and the React effects that tie   *)
(* them together.                                                          *)
(*                                                                         *)
(* JavaScript numbers are modelled as exact rationals <<n, d>> in lowest   *)
(* terms (d > 0); pointer coordinates are integers.                        *)
(***************************************************************************)
EXTENDS Integers, Sequences, FiniteSets, TLC

VARIABLES
  seatId, seatIds, isVip, attendeeName, autoFullscreenOnSeatChange,
  venueNodes, isLoading, error, zoom, isFullscreen, pan,
  pointersRef, lastPinchDistanceRef, dragPointerIdRef, lastDragPosRef,
  lastTapTimeRef, lastTapPosRef,
  prevSeatKeyRef, shouldAutoCenterRef, autoFullscreenRef,
  seatKeyDeps, wheelDeps, wheelListener,
  frame, now, dpr, cameraOps, lastEvent

vars == <<seatId, seatIds, isVip, attendeeName, autoFullscreenOnSeatChange,
          venueNodes, isLoading, error, zoom, isFullscreen, pan,
          pointersRef, lastPinchDistanceRef, dragPointerIdRef, lastDragPosRef,
          lastTapTimeRef, lastTapPosRef,
          prevSeatKeyRef, shouldAutoCenterRef, autoFullscreenRef,
          seatKeyDeps, wheelDeps, wheelListener,
          frame, now, dpr, cameraOps, lastEvent>>

----------------------------------------------------------------------------
(* Bounds of the model *)

\* camera-changing inputs explored per behaviour
MaxCameraOps == 1

\* the clock (milliseconds) starts at 200, advances by 400 and stops here
MaxTime == 600

----------------------------------------------------------------------------
(* JavaScript number arithmetic, exact *)

Abs(i) == IF i < 0 THEN -i ELSE i

RECURSIVE GCD(_, _)
GCD(a, b) == IF b = 0 THEN a ELSE GCD(b, a % b)

Q(n, d) ==
  LET sn == IF d < 0 THEN -n ELSE n
      sd == Abs(d)
      g  == GCD(Abs(sn), sd)
  IN  <<sn \div g, sd \div g>>

QInt(i) == <<i, 1>>

\* sums and products cancel common factors before multiplying
QAdd(a, b) ==
  LET g == GCD(a[2], b[2])
  IN  Q(a[1] * (b[2] \div g) + b[1] * (a[2] \div g), (a[2] \div g) * b[2])

QNeg(a) == <<-a[1], a[2]>>
QSub(a, b) == QAdd(a, QNeg(b))

QMul(a, b) ==
  LET g1 == GCD(Abs(a[1]), b[2])
      g2 == GCD(Abs(b[1]), a[2])
  IN  IF a[1] = 0 \/ b[1] = 0 THEN <<0, 1>>
      ELSE <<(a[1] \div g1) * (b[1] \div g2), (a[2] \div g2) * (b[2] \div g1)>>

QDiv(a, b) == QMul(a, IF b[1] < 0 THEN <<-b[2], -b[1]>> ELSE <<b[2], b[1]>>)
QLt(a, b) == QSub(a, b)[1] < 0
QLe(a, b) == QSub(a, b)[1] <= 0
QMin(a, b) == IF QLt(b, a) THEN b ELSE a
QMax(a, b) == IF QLt(a, b) THEN b ELSE a

\* Math.hypot on integer deltas; the pointer positions of the model are
\* chosen so that every separation is an integer
Hypot(dx, dy) ==
  CHOOSE h \in 0 .. (Abs(dx) + Abs(dy)) : h * h = dx * dx + dy * dy

\* null for numeric refs (ids, times and distances are never negative)
Null == -1
\* null for position refs
NullPos == <<>>

----------------------------------------------------------------------------
(* Tuning constants *)

PAN_SPEED == Q(12, 10)
WHEEL_ZOOM_IN == Q(108, 100)
WHEEL_ZOOM_OUT == Q(92, 100)
DOUBLE_TAP_ZOOM == Q(115, 100)
TAP_THRESHOLD_MS == 300
TAP_DISTANCE_PX == 30
MIN_ZOOM == Q(1, 2)
MAX_ZOOM == QInt(4)
margin == 40

----------------------------------------------------------------------------
(* Props: selection request, mode, capability *)

\* NaN as a seat number
NaN == <<0, 0>>
\* seatId prop absent
NoSeatId == <<>>

\* Math.trunc
Trunc(q) == IF q[1] < 0 THEN -((-q[1]) \div q[2]) ELSE q[1] \div q[2]

RECURSIVE Dedupe(_)
\* Array.from(new Set(a)): first occurrences, in order
Dedupe(a) ==
  IF a = <<>> THEN <<>>
  ELSE LET front == Dedupe(SubSeq(a, 1, Len(a) - 1))
           x     == a[Len(a)]
       IN  IF \E i \in 1 .. Len(front) : front[i] = x THEN front
           ELSE Append(front, x)

selectedSeatIds(sid, sids) ==
  IF Len(sids) > 0
  THEN LET clean == SelectSeq(sids, LAMBDA q : q # NaN)
       IN  Dedupe([i \in 1 .. Len(clean) |-> Trunc(clean[i])])
  ELSE IF sid # NoSeatId /\ sid # NaN THEN <<Trunc(sid)>>
  ELSE <<>>

DigitChars == <<"0", "1", "2", "3", "4", "5", "6", "7", "8", "9">>
Digits == {DigitChars[i] : i \in 1 .. 10}

RECURSIVE NatToString(_)
NatToString(n) ==
  IF n < 10 THEN <<DigitChars[n + 1]>>
  ELSE Append(NatToString(n \div 10), DigitChars[(n % 10) + 1])

\* String(id) for an integer id
String(id) == IF id < 0 THEN <<"-">> \o NatToString(-id) ELSE NatToString(id)

seatIdSet(ids) == {String(ids[i]) : i \in 1 .. Len(ids)}
hasSelectedSeats(ids) == Len(ids) > 0

RECURSIVE Join(_)
\* selectedSeatIds.join(",")
Join(ids) ==
  IF ids = <<>> THEN <<>>
  ELSE IF Len(ids) = 1 THEN String(ids[1])
  ELSE Join(SubSeq(ids, 1, Len(ids) - 1)) \o <<",">> \o String(ids[Len(ids)])

seatKey(ids) == Join(ids)

mode(vip) == IF vip = "true" THEN "vip" ELSE IF vip = "false" THEN "regular" ELSE "admin"

\* label.match(/\d+/)?.[0]; <<>> when the label has no digit
firstDigitRun(label) ==
  IF \A i \in 1 .. Len(label) : label[i] \notin Digits THEN <<>>
  ELSE LET start == CHOOSE i \in 1 .. Len(label) :
                      /\ label[i] \in Digits
                      /\ \A j \in 1 .. (i - 1) : label[j] \notin Digits
           stop  == CHOOSE k \in start .. Len(label) :
                      /\ \A j \in start .. k : label[j] \in Digits
                      /\ (k = Len(label) \/ label[k + 1] \notin Digits)
       IN  SubSeq(label, start, stop)

allowedTypes(m) ==
  IF m = "vip" THEN {"vip-table"}
  ELSE IF m = "regular" THEN {"table"}
  ELSE {"table", "vip-table"}

\* the filter of the validate effect
matches(nodes, idSet, m) ==
  SelectSeq(nodes, LAMBDA node :
    /\ node.type \in allowedTypes(m)
    /\ firstDigitRun(node.label) # <<>>
    /\ firstDigitRun(node.label) \in idSet)

isSeatNodeSelectedAdminRegularOnly(node, idSet, m) ==
  LET tableNum == firstDigitRun(node.label)
  IN  IF tableNum = <<>> \/ tableNum \notin idSet THEN FALSE
      ELSE IF m = "vip" THEN node.type = "vip-table"
      ELSE node.type = "table"

isSeatNodeSelected(node, idSet, m) ==
  LET tableNum == firstDigitRun(node.label)
  IN  IF tableNum = <<>> \/ tableNum \notin idSet THEN FALSE
      ELSE IF m = "vip" THEN node.type = "vip-table"
      ELSE IF m = "regular" THEN node.type = "table"
      ELSE node.type = "table" \/ node.type = "vip-table"

NoError == [msg |-> "", id |-> Null]

notFoundErrorGenericOnly(ids, m) ==
  [msg |-> "No matching tables found for selected seats", id |-> Null]

\* the error chosen by the validate effect when nothing matches
notFoundError(ids, m) ==
  IF Len(ids) = 1
  THEN IF m = "vip" THEN [msg |-> "VIP table ${id} not found", id |-> ids[1]]
       ELSE IF m = "regular" THEN [msg |-> "Table ${id} not found", id |-> ids[1]]
       ELSE [msg |-> "No VIP or regular table ${id} found", id |-> ids[1]]
  ELSE [msg |-> "No matching tables found for selected seats", id |-> Null]

----------------------------------------------------------------------------
(* Camera *)

clampZoomNoUpper(z) == QMax(MIN_ZOOM, z)

clampZoom(z) == QMin(MAX_ZOOM, QMax(MIN_ZOOM, z))

\* canvas.getBoundingClientRect(): origin and CSS size of the drawing surface
canvasRect(fs) ==
  IF fs THEN [left |-> 10, top |-> 20, width |-> 80, height |-> 60]
  ELSE [left |-> 10, top |-> 20, width |-> 60, height |-> 40]

\* the canvas exists once loading is over and the layout has nodes
hasCanvas(s) == ~s.isLoading /\ Len(s.venueNodes) > 0

zoomedCameraKeepsPan(prevZoom, prevPan, factor, x, y) ==
  [zoom |-> clampZoom(QMul(prevZoom, factor)), pan |-> prevPan]

zoomedCameraUnclampedPan(prevZoom, prevPan, factor, x, y) ==
  IF factor = QInt(1) THEN [zoom |-> prevZoom, pan |-> prevPan]
  ELSE LET worldX == QDiv(QSub(x, prevPan[1]), prevZoom)
           worldY == QDiv(QSub(y, prevPan[2]), prevZoom)
       IN  [zoom |-> clampZoom(QMul(prevZoom, factor)),
            pan  |-> <<QSub(x, QMul(worldX, QMul(prevZoom, factor))),
                       QSub(y, QMul(worldY, QMul(prevZoom, factor)))>>]

\* what (setZoom updater + nested setPan updater) make of a camera
zoomedCamera(prevZoom, prevPan, factor, x, y) ==
  LET targetZoom   == clampZoom(QMul(prevZoom, factor))
      actualFactor == QDiv(targetZoom, prevZoom)
  IN  IF actualFactor = QInt(1) THEN [zoom |-> prevZoom, pan |-> prevPan]
      ELSE LET worldX == QDiv(QSub(x, prevPan[1]), prevZoom)
               worldY == QDiv(QSub(y, prevPan[2]), prevZoom)
           IN  [zoom |-> targetZoom,
                pan  |-> <<QSub(x, QMul(worldX, targetZoom)),
                           QSub(y, QMul(worldY, targetZoom))>>]

zoomAtPoint(s, factor, clientX, clientY) ==
  IF ~hasCanvas(s) THEN s
  ELSE LET rect == canvasRect(s.isFullscreen)
           x    == QSub(clientX, QInt(rect.left))
           y    == QSub(clientY, QInt(rect.top))
           cam  == zoomedCamera(s.zoom, s.pan, factor, x, y)
       IN  [s EXCEPT !.zoom = cam.zoom, !.pan = cam.pan]

zoomToCenter(s, factor) ==
  IF ~hasCanvas(s) THEN s
  ELSE LET rect == canvasRect(s.isFullscreen)
       IN  zoomAtPoint(s, factor,
                       QAdd(QInt(rect.left), Q(rect.width, 2)),
                       QAdd(QInt(rect.top), Q(rect.height, 2)))

handleZoomIn(s) == zoomToCenter(s, DOUBLE_TAP_ZOOM)
handleZoomOut(s) == zoomToCenter(s, QDiv(QInt(1), DOUBLE_TAP_ZOOM))

handleResetView(s) ==
  [s EXCEPT !.zoom = QInt(1), !.pan = <<QInt(0), QInt(0)>>,
            !.shouldAutoCenterRef = FALSE]

\* toggleFullscreen of the viewer in components/pathfinding-visualization.tsx,
\* which has no automatic fullscreen: setIsFullscreen(prev => !prev), and
\* handleResetView() when the view was embedded
toggleFullscreenBasic(s) ==
  LET s1 == [s EXCEPT !.isFullscreen = ~s.isFullscreen]
  IN  IF ~s.isFullscreen
      THEN [s1 EXCEPT !.zoom = QInt(1), !.pan = <<QInt(0), QInt(0)>>]
      ELSE s1

toggleFullscreenKeepsCamera(s) ==
  [s EXCEPT !.isFullscreen = ~s.isFullscreen, !.autoFullscreenRef = FALSE]

toggleFullscreenKeepsFlags(s) ==
  [s EXCEPT !.isFullscreen = ~s.isFullscreen]

toggleFullscreen(s) ==
  LET wasFullscreen == s.isFullscreen
      s1 == IF wasFullscreen /\ s.autoFullscreenRef
            THEN [s EXCEPT !.zoom = QInt(1), !.pan = <<QInt(0), QInt(0)>>,
                           !.shouldAutoCenterRef = FALSE,
                           !.autoFullscreenRef = FALSE]
            ELSE s
      s2 == IF ~wasFullscreen THEN [s1 EXCEPT !.autoFullscreenRef = FALSE] ELSE s1
  IN  [s2 EXCEPT !.isFullscreen = ~wasFullscreen]

\* CSS position at which the draw effect paints the base-transform point p:
\* ctx.scale(totalScale) then ctx.translate(pan / totalScale) on a backing
\* store of dpr device pixels per CSS pixel
paintedAt(p, z, pn, ratio) ==
  LET totalScale == QMul(z, QInt(ratio))
      device(c, t) == QMul(totalScale, QAdd(c, QDiv(t, totalScale)))
  IN  <<QDiv(device(p[1], pn[1]), QInt(ratio)),
        QDiv(device(p[2], pn[2]), QInt(ratio))>>

\* the base-transform point that the draw effect paints at CSS position c
paintedUnder(c, z, pn, ratio) ==
  LET totalScale == QMul(z, QInt(ratio))
      inv(v, t) == QSub(QDiv(QMul(v, QInt(ratio)), totalScale), QDiv(t, totalScale))
  IN  <<inv(c[1], pn[1]), inv(c[2], pn[2])>>

----------------------------------------------------------------------------
(* Pointer session *)

\* pointersRef is a Map in insertion order: a sequence of [id, x, y]
hasPointer(ptrs, id) == \E i \in 1 .. Len(ptrs) : ptrs[i].id = id

indexOfPointer(ptrs, id) == CHOOSE i \in 1 .. Len(ptrs) : ptrs[i].id = id

\* Map.set: a new key goes last, an existing key keeps its place
setPointer(ptrs, id, x, y) ==
  IF hasPointer(ptrs, id)
  THEN [ptrs EXCEPT ![indexOfPointer(ptrs, id)] = [id |-> id, x |-> x, y |-> y]]
  ELSE Append(ptrs, [id |-> id, x |-> x, y |-> y])

\* Map.delete
deletePointer(ptrs, id) == SelectSeq(ptrs, LAMBDA p : p.id # id)

handleTouchDoubleTapCheckAnyDistance(s, e) ==
  IF e.pointerType # "touch" THEN [used |-> FALSE, s |-> s]
  ELSE LET lastTime == s.lastTapTimeRef
           lastPos  == s.lastTapPosRef
           isDoubleTap ==
             /\ lastTime # Null /\ lastTime # 0
             /\ s.now - lastTime < TAP_THRESHOLD_MS
             /\ lastPos # NullPos
       IN  IF isDoubleTap
           THEN [used |-> TRUE,
                 s |-> [zoomAtPoint(s, DOUBLE_TAP_ZOOM, QInt(e.clientX), QInt(e.clientY))
                          EXCEPT !.lastTapTimeRef = Null, !.lastTapPosRef = NullPos]]
           ELSE [used |-> FALSE,
                 s |-> [s EXCEPT !.lastTapTimeRef = s.now,
                                 !.lastTapPosRef = <<e.clientX, e.clientY>>]]

handleTouchDoubleTapCheck(s, e) ==
  IF e.pointerType # "touch" THEN [used |-> FALSE, s |-> s]
  ELSE LET lastTime == s.lastTapTimeRef
           lastPos  == s.lastTapPosRef
           isDoubleTap ==
             /\ lastTime # Null /\ lastTime # 0
             /\ s.now - lastTime < TAP_THRESHOLD_MS
             /\ lastPos # NullPos
             /\ Hypot(e.clientX - lastPos[1], e.clientY - lastPos[2]) < TAP_DISTANCE_PX
       IN  IF isDoubleTap
           THEN [used |-> TRUE,
                 s |-> [zoomAtPoint(s, DOUBLE_TAP_ZOOM, QInt(e.clientX), QInt(e.clientY))
                          EXCEPT !.lastTapTimeRef = Null, !.lastTapPosRef = NullPos]]
           ELSE [used |-> FALSE,
                 s |-> [s EXCEPT !.lastTapTimeRef = s.now,
                                 !.lastTapPosRef = <<e.clientX, e.clientY>>]]

handleDoubleClick(s, e) ==
  zoomAtPoint(s, DOUBLE_TAP_ZOOM, QInt(e.clientX), QInt(e.clientY))

handlePointerDown(s, e) ==
  LET chk == handleTouchDoubleTapCheck(s, e)
  IN  IF e.pointerType = "touch" /\ chk.used THEN chk.s
      ELSE LET s0 == chk.s
               id == e.pointerId
               pointers == setPointer(s0.pointersRef, id, e.clientX, e.clientY)
               s1 == [s0 EXCEPT !.pointersRef = pointers]
           IN  IF Len(pointers) = 1
               THEN [s1 EXCEPT !.dragPointerIdRef = id,
                               !.lastDragPosRef = <<e.clientX, e.clientY>>,
                               !.lastPinchDistanceRef = Null]
               ELSE IF Len(pointers) = 2
               THEN LET p1 == pointers[1]
                        p2 == pointers[2]
                    IN  [s1 EXCEPT !.lastPinchDistanceRef = Hypot(p2.x - p1.x, p2.y - p1.y),
                                   !.dragPointerIdRef = Null,
                                   !.lastDragPosRef = NullPos]
               ELSE s1

handlePointerMoveUnitSpeed(s, e) ==
  LET id == e.pointerId
  IN  IF ~hasPointer(s.pointersRef, id) THEN s
      ELSE LET pointers == setPointer(s.pointersRef, id, e.clientX, e.clientY)
               s1 == [s EXCEPT !.pointersRef = pointers]
           IN  IF /\ Len(pointers) = 1
                  /\ s.dragPointerIdRef = id
                  /\ s.lastDragPosRef # NullPos
               THEN LET dx == QInt(e.clientX - s.lastDragPosRef[1])
                        dy == QInt(e.clientY - s.lastDragPosRef[2])
                    IN  [s1 EXCEPT !.lastDragPosRef = <<e.clientX, e.clientY>>,
                                   !.pan = <<QAdd(s.pan[1], dx), QAdd(s.pan[2], dy)>>,
                                   !.shouldAutoCenterRef = FALSE]
               ELSE IF /\ Len(pointers) >= 2
                       /\ s.lastPinchDistanceRef # Null
                       /\ s.lastPinchDistanceRef # 0
               THEN LET p1 == pointers[1]
                        p2 == pointers[2]
                        dist == Hypot(p2.x - p1.x, p2.y - p1.y)
                    IN  IF dist = 0 THEN s1
                        ELSE [zoomAtPoint(s1, Q(dist, s.lastPinchDistanceRef),
                                          Q(p1.x + p2.x, 2), Q(p1.y + p2.y, 2))
                                EXCEPT !.lastPinchDistanceRef = dist,
                                       !.shouldAutoCenterRef = FALSE]
               ELSE s1

handlePointerMove(s, e) ==
  LET id == e.pointerId
  IN  IF ~hasPointer(s.pointersRef, id) THEN s
      ELSE LET pointers == setPointer(s.pointersRef, id, e.clientX, e.clientY)
               s1 == [s EXCEPT !.pointersRef = pointers]
           IN  IF /\ Len(pointers) = 1
                  /\ s.dragPointerIdRef = id
                  /\ s.lastDragPosRef # NullPos
               THEN LET dx == QMul(QInt(e.clientX - s.lastDragPosRef[1]), PAN_SPEED)
                        dy == QMul(QInt(e.clientY - s.lastDragPosRef[2]), PAN_SPEED)
                    IN  [s1 EXCEPT !.lastDragPosRef = <<e.clientX, e.clientY>>,
                                   !.pan = <<QAdd(s.pan[1], dx), QAdd(s.pan[2], dy)>>,
                                   !.shouldAutoCenterRef = FALSE]
               ELSE IF /\ Len(pointers) >= 2
                       /\ s.lastPinchDistanceRef # Null
                       /\ s.lastPinchDistanceRef # 0
               THEN LET p1 == pointers[1]
                        p2 == pointers[2]
                        dist == Hypot(p2.x - p1.x, p2.y - p1.y)
                    IN  IF dist = 0 THEN s1
                        ELSE [zoomAtPoint(s1, Q(dist, s.lastPinchDistanceRef),
                                          Q(p1.x + p2.x, 2), Q(p1.y + p2.y, 2))
                                EXCEPT !.lastPinchDistanceRef = dist,
                                       !.shouldAutoCenterRef = FALSE]
               ELSE s1

endPointerKeepsDragPos(s, e) ==
  LET remaining == deletePointer(s.pointersRef, e.pointerId)
      s1 == [s EXCEPT !.pointersRef = remaining]
  IN  IF Len(remaining) = 0
      THEN [s1 EXCEPT !.dragPointerIdRef = Null,
                      !.lastPinchDistanceRef = Null,
                      !.lastDragPosRef = NullPos]
      ELSE IF Len(remaining) = 1
      THEN [s1 EXCEPT !.dragPointerIdRef = remaining[1].id,
                      !.lastPinchDistanceRef = Null]
      ELSE s1

endPointer(s, e) ==
  LET remaining == deletePointer(s.pointersRef, e.pointerId)
      s1 == [s EXCEPT !.pointersRef = remaining]
  IN  IF Len(remaining) = 0
      THEN [s1 EXCEPT !.dragPointerIdRef = Null,
                      !.lastPinchDistanceRef = Null,
                      !.lastDragPosRef = NullPos]
      ELSE IF Len(remaining) = 1
      THEN [s1 EXCEPT !.dragPointerIdRef = remaining[1].id,
                      !.lastPinchDistanceRef = Null,
                      !.lastDragPosRef = <<remaining[1].x, remaining[1].y>>]
      ELSE s1

handleWheelNativeReciprocal(s, e) ==
  LET factor == IF e.deltaY < 0 THEN WHEEL_ZOOM_IN ELSE QDiv(QInt(1), WHEEL_ZOOM_IN)
  IN  [zoomAtPoint(s, factor, QInt(e.clientX), QInt(e.clientY))
         EXCEPT !.shouldAutoCenterRef = FALSE]

handleWheelNative(s, e) ==
  LET factor == IF e.deltaY < 0 THEN WHEEL_ZOOM_IN ELSE WHEEL_ZOOM_OUT
  IN  [zoomAtPoint(s, factor, QInt(e.clientX), QInt(e.clientY))
         EXCEPT !.shouldAutoCenterRef = FALSE]

----------------------------------------------------------------------------
(* Base transform (fit) *)

MinOf(S) == CHOOSE m \in S : \A v \in S : m <= v
MaxOf(S) == CHOOSE m \in S : \A v \in S : v <= m

baseTransformLargerScale(nodes, cssWidth, cssHeight) ==
  LET allX == {nodes[i].x : i \in 1 .. Len(nodes)}
      allY == {nodes[i].y : i \in 1 .. Len(nodes)}
      minX == MinOf(allX) - margin
      maxX == MaxOf(allX) + margin
      minY == MinOf(allY) - margin
      maxY == MaxOf(allY) + margin
      contentWidth  == maxX - minX
      contentHeight == maxY - minY
      scaleX == Q(cssWidth, contentWidth)
      scaleY == Q(cssHeight, contentHeight)
      contentScale == QMax(scaleX, scaleY)
      viewWidthWorld  == QDiv(QInt(cssWidth), contentScale)
      viewHeightWorld == QDiv(QInt(cssHeight), contentScale)
      offsetXWorld == QDiv(QSub(viewWidthWorld, QInt(contentWidth)), QInt(2))
      offsetYWorld == QDiv(QSub(viewHeightWorld, QInt(contentHeight)), QInt(2))
  IN  [contentScale |-> contentScale,
       centeredMinX |-> QSub(QInt(minX), offsetXWorld),
       centeredMinY |-> QSub(QInt(minY), offsetYWorld)]

\* content bounds with margin, uniform content scale and centring offset
baseTransform(nodes, cssWidth, cssHeight) ==
  LET allX == {nodes[i].x : i \in 1 .. Len(nodes)}
      allY == {nodes[i].y : i \in 1 .. Len(nodes)}
      minX == MinOf(allX) - margin
      maxX == MaxOf(allX) + margin
      minY == MinOf(allY) - margin
      maxY == MaxOf(allY) + margin
      contentWidth  == maxX - minX
      contentHeight == maxY - minY
      scaleX == Q(cssWidth, contentWidth)
      scaleY == Q(cssHeight, contentHeight)
      contentScale == QMin(scaleX, scaleY)
      viewWidthWorld  == QDiv(QInt(cssWidth), contentScale)
      viewHeightWorld == QDiv(QInt(cssHeight), contentScale)
      offsetXWorld == QDiv(QSub(viewWidthWorld, QInt(contentWidth)), QInt(2))
      offsetYWorld == QDiv(QSub(viewHeightWorld, QInt(contentHeight)), QInt(2))
  IN  [contentScale |-> contentScale,
       centeredMinX |-> QSub(QInt(minX), offsetXWorld),
       centeredMinY |-> QSub(QInt(minY), offsetYWorld)]

toCanvas(x, y, bt) ==
  <<QMul(QSub(QInt(x), bt.centeredMinX), bt.contentScale),
    QMul(QSub(QInt(y), bt.centeredMinY), bt.contentScale)>>

----------------------------------------------------------------------------
(* Render and effects *)

\* the container element that the current render displays
displayedContainer(s) ==
  IF ~hasCanvas(s) THEN "none"
  ELSE IF s.isFullscreen THEN "fullscreen" ELSE "embedded"

validateEffectWithoutNodesGuard(r, s) ==
  LET ids == selectedSeatIds(r.seatId, r.seatIds)
      m   == mode(r.isVip)
  IN  IF ~hasSelectedSeats(ids) THEN s
      ELSE IF Len(matches(r.venueNodes, seatIdSet(ids), m)) = 0
      THEN [s EXCEPT !.error = notFoundError(ids, m)]
      ELSE [s EXCEPT !.error = NoError]

\* validate seat(s) effect
validateEffect(r, s) ==
  LET ids == selectedSeatIds(r.seatId, r.seatIds)
      m   == mode(r.isVip)
  IN  IF ~hasSelectedSeats(ids) \/ Len(r.venueNodes) = 0 THEN s
      ELSE IF Len(matches(r.venueNodes, seatIdSet(ids), m)) = 0
      THEN [s EXCEPT !.error = notFoundError(ids, m)]
      ELSE [s EXCEPT !.error = NoError]

\* auto fullscreen on seat change effect, deps [seatKey, autoFullscreenOnSeatChange]
autoFullscreenEffect(r, s) ==
  LET key  == seatKey(selectedSeatIds(r.seatId, r.seatIds))
      deps == <<key, r.autoFullscreenOnSeatChange>>
  IN  IF deps = s.seatKeyDeps THEN s
      ELSE LET s1 == [s EXCEPT !.seatKeyDeps = deps]
           IN  IF ~r.autoFullscreenOnSeatChange THEN s1
               ELSE IF key = <<>> THEN s1
               ELSE IF key # s1.prevSeatKeyRef
               THEN [s1 EXCEPT !.prevSeatKeyRef = key,
                               !.autoFullscreenRef = TRUE,
                               !.isFullscreen = TRUE,
                               !.zoom = QInt(1),
                               !.pan = <<QInt(0), QInt(0)>>,
                               !.shouldAutoCenterRef = TRUE]
               ELSE s1

\* wheel zoom effect, deps [isFullscreen]: the listener moves to the
\* container that containerRef holds when the effect runs
wheelEffect(r, s) ==
  IF <<r.isFullscreen>> = s.wheelDeps THEN s
  ELSE [s EXCEPT !.wheelDeps = <<r.isFullscreen>>,
                 !.wheelListener = displayedContainer(r)]

glyphOfRoutingHidden(type) ==
  IF type \in {"stage", "buffet", "carving-table", "crying-room", "photo-exhibit",
               "custom", "intersection", "entrance", "table", "vip-table"}
  THEN type ELSE ""

\* glyph painted by drawNode for a node type; "" when nothing is painted
glyphOf(type) ==
  IF type \in {"stage", "buffet", "carving-table", "crying-room", "photo-exhibit",
               "custom", "waypoint", "intersection", "entrance", "table", "vip-table"}
  THEN type ELSE ""

\* drawing effect: one entry per painted node
drawEffect(r, s) ==
  IF ~hasCanvas(r) THEN s
  ELSE LET idSet == seatIdSet(selectedSeatIds(r.seatId, r.seatIds))
           m     == mode(r.isVip)
           visible == SelectSeq(r.venueNodes, LAMBDA node : glyphOf(node.type) # "")
       IN  [s EXCEPT !.frame =
              [i \in 1 .. Len(visible) |->
                 [id |-> visible[i].id,
                  glyph |-> glyphOf(visible[i].type),
                  highlight |-> isSeatNodeSelected(visible[i], idSet, m)]]]

autoCenterEffectKeepsFlag(r, s) ==
  LET ids   == selectedSeatIds(r.seatId, r.seatIds)
      idSet == seatIdSet(ids)
      m     == mode(r.isVip)
      found == SelectSeq(r.venueNodes, LAMBDA node : isSeatNodeSelected(node, idSet, m))
  IN  IF \/ ~r.isFullscreen
         \/ ~s.shouldAutoCenterRef
         \/ ~hasSelectedSeats(ids)
         \/ Len(r.venueNodes) = 0
      THEN s
      ELSE IF ~hasCanvas(r) THEN s
      ELSE IF Len(found) = 0 THEN s
      ELSE LET rect   == canvasRect(r.isFullscreen)
               bt     == baseTransform(r.venueNodes, rect.width, rect.height)
               seat   == toCanvas(found[1].x, found[1].y, bt)
               centerX == Q(rect.width, 2)
               centerY == Q(rect.height, 2)
           IN  [s EXCEPT !.pan = <<QSub(centerX, QMul(seat[1], r.zoom)),
                                   QSub(centerY, QMul(seat[2], r.zoom))>>,
                         !.lastEvent.centered = TRUE]

autoCenterEffectNotAfterLoad(r, s) ==
  LET ids   == selectedSeatIds(r.seatId, r.seatIds)
      idSet == seatIdSet(ids)
      m     == mode(r.isVip)
      found == SelectSeq(r.venueNodes, LAMBDA node : isSeatNodeSelected(node, idSet, m))
  IN  IF \/ ~r.isFullscreen
         \/ ~s.shouldAutoCenterRef
         \/ ~hasSelectedSeats(ids)
         \/ Len(r.venueNodes) = 0
         \/ s.lastEvent.kind = "load"
      THEN s
      ELSE IF ~hasCanvas(r) THEN s
      ELSE IF Len(found) = 0 THEN s
      ELSE LET rect   == canvasRect(r.isFullscreen)
               bt     == baseTransform(r.venueNodes, rect.width, rect.height)
               seat   == toCanvas(found[1].x, found[1].y, bt)
               centerX == Q(rect.width, 2)
               centerY == Q(rect.height, 2)
           IN  [s EXCEPT !.pan = <<QSub(centerX, QMul(seat[1], r.zoom)),
                                   QSub(centerY, QMul(seat[2], r.zoom))>>,
                         !.shouldAutoCenterRef = FALSE,
                         !.lastEvent.centered = TRUE]

\* auto-center effect
autoCenterEffect(r, s) ==
  LET ids   == selectedSeatIds(r.seatId, r.seatIds)
      idSet == seatIdSet(ids)
      m     == mode(r.isVip)
      found == SelectSeq(r.venueNodes, LAMBDA node : isSeatNodeSelected(node, idSet, m))
  IN  IF \/ ~r.isFullscreen
         \/ ~s.shouldAutoCenterRef
         \/ ~hasSelectedSeats(ids)
         \/ Len(r.venueNodes) = 0
      THEN s
      ELSE IF ~hasCanvas(r) THEN s
      ELSE IF Len(found) = 0 THEN s
      ELSE LET rect   == canvasRect(r.isFullscreen)
               bt     == baseTransform(r.venueNodes, rect.width, rect.height)
               seat   == toCanvas(found[1].x, found[1].y, bt)
               centerX == Q(rect.width, 2)
               centerY == Q(rect.height, 2)
           IN  [s EXCEPT !.pan = <<QSub(centerX, QMul(seat[1], r.zoom)),
                                   QSub(centerY, QMul(seat[2], r.zoom))>>,
                         !.shouldAutoCenterRef = FALSE,
                         !.lastEvent.centered = TRUE]

\* F at the value of v, which is computed once
Then(v, F(_)) == CHOOSE out \in {F(x) : x \in {v}} : TRUE

\* one commit: the effects run in declaration order, all reading the values
\* of the render r they were created in and the refs as they are now
effectsPass(r) ==
  Then(validateEffect(r, r),       LAMBDA s1 :
  Then(autoFullscreenEffect(r, s1), LAMBDA s2 :
  Then(wheelEffect(r, s2),          LAMBDA s3 :
  Then(drawEffect(r, s3),           LAMBDA s4 :
  autoCenterEffect(r, s4)))))

RECURSIVE settle(_, _)
\* re-render until no effect changes anything
settle(s, fuel) ==
  Then(s, LAMBDA r :
  Then(effectsPass(r), LAMBDA t :
  IF t = r \/ fuel = 0 THEN t ELSE settle(t, fuel - 1)))

render(s) == settle(s, 4)

----------------------------------------------------------------------------
(* Inputs the environment can supply *)

TableNode(i, t, l, px, py) == [id |-> i, type |-> t, label |-> l, x |-> px, y |-> py]

\* "Entrance 5", "Table 5", "VIP Table 5", "Table 12", a routing node
LayoutA ==
  << TableNode("n1", "entrance",  <<"E", " ", "5">>,       0,   0),
     TableNode("n2", "table",     <<"T", " ", "5">>,     100,   0),
     TableNode("n3", "vip-table", <<"V", " ", "5">>,       0,  50),
     TableNode("n4", "table",     <<"T", " ", "1", "2">>, 100, 50),
     TableNode("n5", "edge-node", <<"e", "7">>,           50,  25) >>

\* results of getVenueMap(): a layout, a map without nodes, or a rejection
FetchOutcomes ==
  { [kind |-> "nodes", nodes |-> LayoutA],
    [kind |-> "nodes", nodes |-> <<>>],
    [kind |-> "noNodes", nodes |-> <<>>],
    [kind |-> "throws", nodes |-> <<>>] }

\* selection requests of the host: (seatId, seatIds)
Requests ==
  { [seatId |-> NoSeatId, seatIds |-> <<>>],
    [seatId |-> QInt(5), seatIds |-> <<>>],
    [seatId |-> NoSeatId, seatIds |-> <<QInt(99)>>] }

VipFlags == {"true", "false", "undefined"}

\* client positions of pointer, click and wheel events (inside the canvas);
\* separations 9, 40 and 41
Points == { <<10, 20>>, <<19, 20>>, <<10, 60>> }

PointerIds == {1, 2, 3}

\* the pointers used when the whole viewer is explored: mouse and one finger
ViewerPointerIds == {1, 2}

\* pointer 1 is the mouse, the others are touch contacts
pointerTypeOf(id) == IF id = 1 THEN "mouse" ELSE "touch"

DevicePixelRatios == {1, 2}

NoCall == <<>>

----------------------------------------------------------------------------
(* State as one record, for the handlers *)

Cur ==
  [seatId |-> seatId, seatIds |-> seatIds, isVip |-> isVip,
   attendeeName |-> attendeeName,
   autoFullscreenOnSeatChange |-> autoFullscreenOnSeatChange,
   venueNodes |-> venueNodes, isLoading |-> isLoading, error |-> error,
   zoom |-> zoom, isFullscreen |-> isFullscreen, pan |-> pan,
   pointersRef |-> pointersRef, lastPinchDistanceRef |-> lastPinchDistanceRef,
   dragPointerIdRef |-> dragPointerIdRef, lastDragPosRef |-> lastDragPosRef,
   lastTapTimeRef |-> lastTapTimeRef, lastTapPosRef |-> lastTapPosRef,
   prevSeatKeyRef |-> prevSeatKeyRef, shouldAutoCenterRef |-> shouldAutoCenterRef,
   autoFullscreenRef |-> autoFullscreenRef,
   seatKeyDeps |-> seatKeyDeps, wheelDeps |-> wheelDeps,
   wheelListener |-> wheelListener,
   frame |-> frame, now |-> now, dpr |-> dpr, cameraOps |-> cameraOps,
   lastEvent |-> lastEvent]

Holds(s) ==
  \E t \in {s} :
    /\ seatId = t.seatId /\ seatIds = t.seatIds /\ isVip = t.isVip
    /\ attendeeName = t.attendeeName
    /\ autoFullscreenOnSeatChange = t.autoFullscreenOnSeatChange
    /\ venueNodes = t.venueNodes /\ isLoading = t.isLoading /\ error = t.error
    /\ zoom = t.zoom /\ isFullscreen = t.isFullscreen /\ pan = t.pan
    /\ pointersRef = t.pointersRef
    /\ lastPinchDistanceRef = t.lastPinchDistanceRef
    /\ dragPointerIdRef = t.dragPointerIdRef /\ lastDragPosRef = t.lastDragPosRef
    /\ lastTapTimeRef = t.lastTapTimeRef /\ lastTapPosRef = t.lastTapPosRef
    /\ prevSeatKeyRef = t.prevSeatKeyRef
    /\ shouldAutoCenterRef = t.shouldAutoCenterRef
    /\ autoFullscreenRef = t.autoFullscreenRef
    /\ seatKeyDeps = t.seatKeyDeps /\ wheelDeps = t.wheelDeps
    /\ wheelListener = t.wheelListener
    /\ frame = t.frame /\ now = t.now /\ dpr = t.dpr /\ cameraOps = t.cameraOps
    /\ lastEvent = t.lastEvent

Commit(s) ==
  \E t \in {s} :
    /\ seatId' = t.seatId
    /\ seatIds' = t.seatIds
    /\ isVip' = t.isVip
    /\ attendeeName' = t.attendeeName
    /\ autoFullscreenOnSeatChange' = t.autoFullscreenOnSeatChange
    /\ venueNodes' = t.venueNodes
    /\ isLoading' = t.isLoading
    /\ error' = t.error
    /\ zoom' = t.zoom
    /\ isFullscreen' = t.isFullscreen
    /\ pan' = t.pan
    /\ pointersRef' = t.pointersRef
    /\ lastPinchDistanceRef' = t.lastPinchDistanceRef
    /\ dragPointerIdRef' = t.dragPointerIdRef
    /\ lastDragPosRef' = t.lastDragPosRef
    /\ lastTapTimeRef' = t.lastTapTimeRef
    /\ lastTapPosRef' = t.lastTapPosRef
    /\ prevSeatKeyRef' = t.prevSeatKeyRef
    /\ shouldAutoCenterRef' = t.shouldAutoCenterRef
    /\ autoFullscreenRef' = t.autoFullscreenRef
    /\ seatKeyDeps' = t.seatKeyDeps
    /\ wheelDeps' = t.wheelDeps
    /\ wheelListener' = t.wheelListener
    /\ frame' = t.frame
    /\ now' = t.now
    /\ dpr' = t.dpr
    /\ cameraOps' = t.cameraOps
    /\ lastEvent' = t.lastEvent

\* the last event delivered: its kind; for a pointer event the number n of
\* pointers tracked when it arrived; for a direct zoomAtPoint call the
\* factor f, the client point pt and the camera prev it was applied to; for
\* a view event prev is what the event found; for a wheel event its deltaY,
\* the cursor pt and the camera prev it found; for a pointer down its
\* pointerType and client point pt; for a double click its client point pt;
\* centered tells whether the auto-center effect has set the pan since the
\* event arrived
Event(kind) ==
  [kind |-> kind, n |-> Null, f |-> NoCall, pt |-> NullPos, prev |-> NoCall,
   centered |-> FALSE, deltaY |-> 0, pointerType |-> ""]

PointerKinds == {"pointerDown", "pointerMove", "endPointer"}

\* events of the view mode: new props from the host, the fullscreen button
ViewKinds == {"props", "toggle"}

\* what a view event found: whether the camera was the default one (zoom 1,
\* pan (0,0)), the view mode, the two flags, the selection key and the key of
\* the last automatic entry
Before ==
  [atDefault |-> (zoom = QInt(1) /\ pan = <<QInt(0), QInt(0)>>),
   isFullscreen |-> isFullscreen,
   auto |-> autoFullscreenRef, pending |-> shouldAutoCenterRef,
   key |-> seatKey(selectedSeatIds(seatId, seatIds)),
   entered |-> prevSeatKeyRef]

\* the state a handler starts from when the event arrives
At(kind) ==
  [Cur EXCEPT !.lastEvent =
     [Event(kind) EXCEPT !.n = IF kind \in PointerKinds THEN Len(pointersRef) ELSE Null,
                         !.prev = IF kind \in ViewKinds THEN Before ELSE NoCall]]

\* state of a freshly constructed component, before its first commit
Constructed(req, vip, name, cap, ratio) ==
  [seatId |-> req.seatId, seatIds |-> req.seatIds, isVip |-> vip,
   attendeeName |-> name, autoFullscreenOnSeatChange |-> cap,
   venueNodes |-> <<>>, isLoading |-> TRUE, error |-> NoError,
   zoom |-> QInt(1), isFullscreen |-> FALSE, pan |-> <<QInt(0), QInt(0)>>,
   pointersRef |-> <<>>, lastPinchDistanceRef |-> Null,
   dragPointerIdRef |-> Null, lastDragPosRef |-> NullPos,
   lastTapTimeRef |-> Null, lastTapPosRef |-> NullPos,
   prevSeatKeyRef |-> <<>>, shouldAutoCenterRef |-> FALSE,
   autoFullscreenRef |-> FALSE,
   seatKeyDeps |-> <<>>, wheelDeps |-> <<>>, wheelListener |-> "none",
   frame |-> <<>>, now |-> 200, dpr |-> ratio, cameraOps |-> 0,
   lastEvent |-> Event("mount")]

\* a manual camera input is explored while the budget lasts
WithinBudget(t) ==
  \/ (t.zoom = zoom /\ t.pan = pan)
  \/ cameraOps < MaxCameraOps

Spend(t) ==
  IF t.zoom = zoom /\ t.pan = pan THEN t
  ELSE [t EXCEPT !.cameraOps = cameraOps + 1]

----------------------------------------------------------------------------
(* Actions: one per event the component reacts to *)

Init ==
  \E req \in Requests, vip \in VipFlags, name \in BOOLEAN, cap \in BOOLEAN,
     ratio \in {1} :
    Holds(render(Constructed(req, vip, name, cap, ratio)))

\* the fetch started at mount completes
LoadVenueData ==
  /\ isLoading
  /\ \E out \in FetchOutcomes :
       LET s  == At("load")
           s1 == IF out.kind = "nodes"
                 THEN [s EXCEPT !.venueNodes = out.nodes, !.error = NoError]
                 ELSE IF out.kind = "noNodes"
                 THEN [s EXCEPT !.error = [msg |-> "No venue map configured", id |-> Null]]
                 ELSE [s EXCEPT !.error = [msg |-> "Failed to load venue map", id |-> Null]]
       IN  Commit(render([s1 EXCEPT !.isLoading = FALSE]))

\* the host re-renders the component with other props
SetProps(req, vip, name, cap) ==
  /\ <<req.seatId, req.seatIds, vip, name, cap>> #
       <<seatId, seatIds, isVip, attendeeName, autoFullscreenOnSeatChange>>
  /\ Commit(render([At("props") EXCEPT
                      !.seatId = req.seatId, !.seatIds = req.seatIds,
                      !.isVip = vip, !.attendeeName = name,
                      !.autoFullscreenOnSeatChange = cap]))

\* the maximize / minimize button is on screen
toggleVisible ==
  /\ hasCanvas(Cur)
  /\ \/ isFullscreen
     \/ (hasSelectedSeats(selectedSeatIds(seatId, seatIds)) /\ error = NoError)

\* the zoom-out / 1:1 / zoom-in buttons are on screen
zoomButtonsVisible ==
  /\ hasCanvas(Cur)
  /\ \/ isFullscreen
     \/ /\ hasSelectedSeats(selectedSeatIds(seatId, seatIds))
        /\ error = NoError
        /\ attendeeName

ToggleFullscreen ==
  /\ toggleVisible
  /\ Commit(render(toggleFullscreen(At("toggle"))))

\* the maximize / minimize button of components/pathfinding-visualization.tsx
ToggleFullscreenBasic ==
  /\ toggleVisible
  /\ Commit(render(toggleFullscreenBasic(At("toggle"))))

ResetView ==
  /\ zoomButtonsVisible
  /\ Commit(render(handleResetView(At("reset"))))

ZoomIn ==
  /\ zoomButtonsVisible
  /\ \E t \in {render(handleZoomIn(At("zoomIn")))} :
       WithinBudget(t) /\ Commit(Spend(t))

ZoomOut ==
  /\ zoomButtonsVisible
  /\ \E t \in {render(handleZoomOut(At("zoomOut")))} :
       WithinBudget(t) /\ Commit(Spend(t))

DoubleClick(c) ==
  /\ hasCanvas(Cur)
  /\ LET e == [clientX |-> c[1], clientY |-> c[2]]
         s == [At("doubleClick") EXCEPT !.lastEvent.pt = <<QInt(c[1]), QInt(c[2])>>]
     IN  \E t \in {render(handleDoubleClick(s, e))} :
           WithinBudget(t) /\ Commit(Spend(t))

\* a wheel event reaches the handler only through a listener on the
\* container that is on screen
Wheel(deltaY, c) ==
  /\ displayedContainer(Cur) # "none"
  /\ wheelListener = displayedContainer(Cur)
  /\ LET e == [deltaY |-> deltaY, clientX |-> c[1], clientY |-> c[2]]
         s == [At("wheel") EXCEPT !.lastEvent.deltaY = deltaY,
                                  !.lastEvent.pt = <<QInt(c[1]), QInt(c[2])>>,
                                  !.lastEvent.prev = <<zoom, pan>>]
     IN  \E t \in {render(handleWheelNative(s, e))} :
           WithinBudget(t) /\ Commit(Spend(t))

PointerEvent(id, c) ==
  [pointerId |-> id, pointerType |-> pointerTypeOf(id), clientX |-> c[1], clientY |-> c[2]]

\* a pointer that is not tracked goes down on the canvas
PointerDown(id, c) ==
  /\ hasCanvas(Cur)
  /\ ~hasPointer(pointersRef, id)
  /\ LET s == [At("pointerDown") EXCEPT
                  !.lastEvent.pt = <<QInt(c[1]), QInt(c[2])>>,
                  !.lastEvent.pointerType = pointerTypeOf(id)]
     IN  \E t \in {render(handlePointerDown(s, PointerEvent(id, c)))} :
           WithinBudget(t) /\ Commit(Spend(t))

PointerMove(id, c) ==
  /\ hasCanvas(Cur)
  /\ \E t \in {render(handlePointerMove(At("pointerMove"), PointerEvent(id, c)))} :
       WithinBudget(t) /\ Commit(Spend(t))

\* pointer up, cancel or leave
EndPointer(id) ==
  /\ hasCanvas(Cur)
  /\ Commit(render(endPointer(At("endPointer"), PointerEvent(id, <<0, 0>>))))

Tick ==
  /\ now + 400 <= MaxTime
  /\ Commit([At("tick") EXCEPT !.now = now + 400])

\* cursor position of the wheel and double-click events explored here
CursorPoints == { <<19, 20>> }

\* events that do not involve the pointer session
ViewNext ==
  \/ LoadVenueData
  \/ \E req \in Requests, vip \in VipFlags, cap \in BOOLEAN :
       SetProps(req, vip, attendeeName, cap)
  \/ ToggleFullscreen
  \/ ResetView
  \/ ZoomIn
  \/ ZoomOut
  \/ \E c \in CursorPoints : DoubleClick(c)
  \/ \E deltaY \in {-1, 1}, c \in CursorPoints : Wheel(deltaY, c)

Next == ViewNext

Spec == Init /\ [][Next]_vars

----------------------------------------------------------------------------
(* The pointer session on a loaded viewer *)

\* the viewer after a successful load of LayoutA, nothing touched yet
LoadedWith(nodes, req, vip, name, cap) ==
  render([render(Constructed(req, vip, name, cap, 1)) EXCEPT
            !.venueNodes = nodes, !.isLoading = FALSE,
            !.lastEvent = Event("load")])

Loaded(req, vip, name, cap) == LoadedWith(LayoutA, req, vip, name, cap)

InitGesture == Holds(Loaded([seatId |-> QInt(5), seatIds |-> <<>>], "undefined", TRUE, TRUE))

\* pointers are pressed 9 pixels apart or on the same spot
PressPoints == { <<10, 20>>, <<19, 20>> }

NextGesture ==
  \/ \E id \in ViewerPointerIds, c \in PressPoints : PointerDown(id, c)
  \/ \E id \in ViewerPointerIds, c \in Points : PointerMove(id, c)
  \/ \E id \in ViewerPointerIds : EndPointer(id)
  \/ Tick

SpecGesture == InitGesture /\ [][NextGesture]_vars

----------------------------------------------------------------------------
(* Three pointers going down and up *)

NextSession ==
  \/ \E id \in PointerIds, c \in Points : PointerDown(id, c)
  \/ \E id \in PointerIds : EndPointer(id)
  \/ Tick

SpecSession == InitGesture /\ [][NextSession]_vars

----------------------------------------------------------------------------
(* Every camera input on a loaded viewer *)

\* the host moves the viewer from one seat request to another
SeatRequests ==
  {r \in Requests : hasSelectedSeats(selectedSeatIds(r.seatId, r.seatIds))}

\* where each pointer is pressed, and where it is moved to
PressPoint(id) == IF id = 1 THEN <<10, 20>> ELSE <<19, 20>>

MovePoints(id) == IF id = 1 THEN { <<10, 20>>, <<19, 20>> } ELSE { <<19, 20>>, <<10, 60>> }

NextCamera ==
  \/ \E id \in ViewerPointerIds, c \in Points :
       c = PressPoint(id) /\ PointerDown(id, c)
  \/ \E id \in ViewerPointerIds, c \in Points :
       c \in MovePoints(id) /\ PointerMove(id, c)
  \/ \E id \in ViewerPointerIds : EndPointer(id)
  \/ ToggleFullscreen
  \/ ResetView
  \/ ZoomIn
  \/ ZoomOut
  \/ \E c \in CursorPoints : DoubleClick(c)
  \/ \E deltaY \in {-1, 1}, c \in CursorPoints : Wheel(deltaY, c)
  \/ \E req \in SeatRequests : SetProps(req, isVip, attendeeName, autoFullscreenOnSeatChange)

SpecCamera == InitGesture /\ [][NextCamera]_vars

----------------------------------------------------------------------------
(* zoomAtPoint on sampled cameras *)

ZoomSamples == { Q(1, 2), QInt(1), Q(5, 4), QInt(4) }

\* pans a drag can produce: PAN_SPEED times an integer displacement
PanSamples == { <<QInt(0), QInt(0)>>, <<QInt(12), QInt(-6)>> }

\* wheel in, wheel out, double tap / zoom in, zoom out, pinch apart, pinch together
Factors == { WHEEL_ZOOM_IN, WHEEL_ZOOM_OUT, DOUBLE_TAP_ZOOM,
             QDiv(QInt(1), DOUBLE_TAP_ZOOM), Q(40, 9), Q(9, 40) }

\* client points of the calls: two cursor positions and a pinch centre
ZoomPoints == { <<QInt(19), QInt(20)>>, <<QInt(10), QInt(60)>>, <<Q(29, 2), QInt(40)>> }

InitZoom ==
  \E z \in ZoomSamples, p \in PanSamples, ratio \in DevicePixelRatios :
    Holds([Loaded([seatId |-> QInt(5), seatIds |-> <<>>], "undefined", TRUE, FALSE)
             EXCEPT !.zoom = z, !.pan = p, !.dpr = ratio])

ZoomAtPoint(factor, c) ==
  LET s == [At("zoomAtPoint") EXCEPT !.lastEvent.f = factor, !.lastEvent.pt = c,
                                       !.lastEvent.prev = <<zoom, pan>>]
  IN  \E t \in {render(zoomAtPoint(s, factor, c[1], c[2]))} :
        WithinBudget(t) /\ Commit(Spend(t))

NextZoom == \E factor \in Factors, c \in ZoomPoints : ZoomAtPoint(factor, c)

SpecZoom == InitZoom /\ [][NextZoom]_vars

----------------------------------------------------------------------------
(* Selection over sampled layouts *)

SelectTypes == {"table", "vip-table", "entrance", "stage", "custom"}

\* "T 5", "12", "5a12", "S"
SelectLabels == { <<"T", " ", "5">>, <<"1", "2">>, <<"5", "a", "1", "2">>, <<"S">> }

SelectLayouts ==
  { << TableNode("a", ta, la, 0, 0), TableNode("b", tb, lb, 100, 50) >> :
      ta \in SelectTypes, la \in SelectLabels, tb \in SelectTypes, lb \in SelectLabels }

SelectRequests ==
  { [seatId |-> QInt(5), seatIds |-> <<>>],
    [seatId |-> NoSeatId, seatIds |-> <<QInt(12)>>],
    [seatId |-> NoSeatId, seatIds |-> <<QInt(5), QInt(12)>>],
    [seatId |-> NoSeatId, seatIds |-> <<QInt(12), Q(25, 2)>>] }

InitSelect ==
  \E nodes \in SelectLayouts, req \in SelectRequests, vip \in VipFlags :
    Holds(LoadedWith(nodes, req, vip, TRUE, FALSE))

NextSelect ==
  \E req \in SelectRequests, vip \in VipFlags :
    SetProps(req, vip, attendeeName, autoFullscreenOnSeatChange)

SpecSelect == InitSelect /\ [][NextSelect]_vars

----------------------------------------------------------------------------
(* The fetch and the host's requests, from mount *)

NextFetch ==
  \/ LoadVenueData
  \/ \E req \in Requests, vip \in VipFlags, cap \in BOOLEAN :
       SetProps(req, vip, attendeeName, cap)

SpecFetch == Init /\ [][NextFetch]_vars

----------------------------------------------------------------------------
(* View mode: requests of the host, the fullscreen button, the zoom buttons *)

\* no table, table 5 as seatId and as a one-element seatIds, a table that
\* does not exist, table 12, tables 5 and 12 in both orders
ViewRequests ==
  { [seatId |-> NoSeatId, seatIds |-> <<>>],
    [seatId |-> QInt(5), seatIds |-> <<>>],
    [seatId |-> NoSeatId, seatIds |-> <<QInt(5)>>],
    [seatId |-> NoSeatId, seatIds |-> <<QInt(99)>>],
    [seatId |-> NoSeatId, seatIds |-> <<QInt(12)>>],
    [seatId |-> NoSeatId, seatIds |-> <<QInt(5), QInt(12)>>],
    [seatId |-> NoSeatId, seatIds |-> <<QInt(12), QInt(5)>>] }

\* unrestricted and vip-only: table 12 of the layout matches in the first only
ViewModes == {"undefined", "true"}

\* the host passes the capability as a fixed attribute of the viewer
InitView ==
  \E cap \in BOOLEAN :
    Holds(Loaded([seatId |-> NoSeatId, seatIds |-> <<>>], "undefined", TRUE, cap))

NextView ==
  \/ \E req \in ViewRequests : SetProps(req, isVip, attendeeName, autoFullscreenOnSeatChange)
  \/ \E vip \in ViewModes :
       SetProps([seatId |-> seatId, seatIds |-> seatIds], vip, attendeeName,
                autoFullscreenOnSeatChange)
  \/ ToggleFullscreen
  \/ ResetView
  \/ ZoomIn
  \/ ZoomOut

SpecView == InitView /\ [][NextView]_vars

----------------------------------------------------------------------------
(* The viewer of components/pathfinding-visualization.tsx: the same camera,  *)
(* pointer session, effects and buttons, without attendee header and without *)
(* automatic fullscreen (the capability is off, no flag is ever set)         *)

InitBasic ==
  Holds(Loaded([seatId |-> QInt(5), seatIds |-> <<>>], "undefined", FALSE, FALSE))

NextBasic ==
  \/ \E id \in ViewerPointerIds, c \in Points :
       c = PressPoint(id) /\ PointerDown(id, c)
  \/ \E id \in ViewerPointerIds, c \in Points :
       c \in MovePoints(id) /\ PointerMove(id, c)
  \/ \E id \in ViewerPointerIds : EndPointer(id)
  \/ ToggleFullscreenBasic
  \/ ResetView
  \/ ZoomIn
  \/ ZoomOut
  \/ \E c \in CursorPoints : DoubleClick(c)
  \/ \E deltaY \in {-1, 1}, c \in CursorPoints : Wheel(deltaY, c)

SpecBasic == InitBasic /\ [][NextBasic]_vars

----------------------------------------------------------------------------
(* The base transform over layouts of different shape *)

\* a wide layout, a tall one, a single node, one around the origin, LayoutA
FitLayouts ==
  { << TableNode("w1", "table", <<"T", " ", "5">>, 0, 0),
       TableNode("w2", "stage", <<"S">>, 300, 0) >>,
    << TableNode("t1", "table", <<"T", " ", "5">>, 0, 0),
       TableNode("t2", "entrance", <<"E">>, 0, 300) >>,
    << TableNode("s1", "table", <<"T", " ", "5">>, 7, 7) >>,
    << TableNode("o1", "table", <<"T", " ", "5">>, -50, 20),
       TableNode("o2", "edge-node", <<"e", "7">>, 10, -200),
       TableNode("o3", "vip-table", <<"V", " ", "5">>, 10, 20) >>,
    LayoutA }

InitFit ==
  \E nodes \in FitLayouts, ratio \in DevicePixelRatios :
    Holds([LoadedWith(nodes, [seatId |-> QInt(5), seatIds |-> <<>>],
                      "undefined", TRUE, FALSE) EXCEPT !.dpr = ratio])

\* the fullscreen button switches between the two surfaces
NextFit ==
  \/ ToggleFullscreen
  \/ ResetView
  \/ ZoomIn
  \/ ZoomOut
  \/ \E req \in Requests : SetProps(req, isVip, attendeeName, autoFullscreenOnSeatChange)

SpecFit == InitFit /\ [][NextFit]_vars

----------------------------------------------------------------------------
(* Three pointers pressed, moved and released *)

\* where each of the three pointers is pressed, and where it is moved to
PinchPressPoint(id) ==
  IF id = 1 THEN <<10, 20>> ELSE IF id = 2 THEN <<19, 20>> ELSE <<10, 60>>

PinchMovePoints(id) ==
  IF id = 1 THEN { <<10, 20>>, <<19, 20>> }
  ELSE IF id = 2 THEN { <<19, 20>>, <<10, 60>> }
  ELSE { <<10, 60>>, <<10, 20>> }

NextPinch ==
  \/ \E id \in PointerIds, c \in Points :
       c = PinchPressPoint(id) /\ PointerDown(id, c)
  \/ \E id \in PointerIds, c \in Points :
       c \in PinchMovePoints(id) /\ PointerMove(id, c)
  \/ \E id \in PointerIds : EndPointer(id)

SpecPinch == InitGesture /\ [][NextPinch]_vars

----------------------------------------------------------------------------
(* The wheel on sampled cameras *)

\* the embedded viewer at a sampled camera; the wheel listener is attached
\* once the fullscreen button has been used
InitWheel ==
  \E z \in ZoomSamples, p \in PanSamples :
    Holds([Loaded([seatId |-> QInt(5), seatIds |-> <<>>], "undefined", TRUE, FALSE)
             EXCEPT !.zoom = z, !.pan = p])

NextWheel ==
  \/ ToggleFullscreen
  \/ \E deltaY \in {-1, 1}, c \in Points : Wheel(deltaY, c)

SpecWheel == InitWheel /\ [][NextWheel]_vars

----------------------------------------------------------------------------
(* Taps and double clicks *)

\* the mouse and a finger are pressed and lifted while time passes; the
\* mouse double-clicks
NextTap ==
  \/ \E id \in ViewerPointerIds, c \in Points : PointerDown(id, c)
  \/ \E id \in ViewerPointerIds : EndPointer(id)
  \/ Tick
  \/ \E c \in Points : DoubleClick(c)

SpecTap == InitGesture /\ [][NextTap]_vars

----------------------------------------------------------------------------
(* Matching over labels with one or two digit runs, none, a leading zero *)

MatchTypes == {"table", "vip-table", "entrance"}

\* "T 5", "12", "5a12", "S", "T 05"
MatchLabels ==
  { <<"T", " ", "5">>, <<"1", "2">>, <<"5", "a", "1", "2">>, <<"S">>,
    <<"T", " ", "0", "5">> }

MatchLayouts ==
  { << TableNode("a", ta, la, 0, 0), TableNode("b", tb, lb, 100, 50) >> :
      ta \in MatchTypes, la \in MatchLabels, tb \in MatchTypes, lb \in MatchLabels }

\* table 5, table 1, table 12, tables 5 and 12
MatchRequests ==
  { [seatId |-> QInt(5), seatIds |-> <<>>],
    [seatId |-> NoSeatId, seatIds |-> <<QInt(1)>>],
    [seatId |-> NoSeatId, seatIds |-> <<QInt(12)>>],
    [seatId |-> NoSeatId, seatIds |-> <<QInt(5), QInt(12)>>] }

InitMatch ==
  \E nodes \in MatchLayouts, req \in MatchRequests, vip \in VipFlags :
    Holds(LoadedWith(nodes, req, vip, TRUE, FALSE))

NextMatch ==
  \E req \in MatchRequests, vip \in VipFlags :
    SetProps(req, vip, attendeeName, autoFullscreenOnSeatChange)

SpecMatch == InitMatch /\ [][NextMatch]_vars

----------------------------------------------------------------------------
(* A viewer with the capability on, from mount: the fetch, the host's        *)
(* requests, the fullscreen button and the 1:1 button                        *)

InitPending ==
  \E req \in Requests, vip \in VipFlags :
    Holds(render(Constructed(req, vip, TRUE, TRUE, 1)))

NextPending ==
  \/ LoadVenueData
  \/ \E req \in Requests, vip \in VipFlags :
       SetProps(req, vip, attendeeName, autoFullscreenOnSeatChange)
  \/ ToggleFullscreen
  \/ ResetView

SpecPending == InitPending /\ [][NextPending]_vars

\* the promise of getVenueMap() settles: the fetch started at mount completes
SpecPendingLive == SpecPending /\ WF_vars(LoadVenueData)

----------------------------------------------------------------------------
(* Painting over layouts of every node type *)

\* the node types drawNode distinguishes
PaintTypes ==
  {"stage", "buffet", "carving-table", "crying-room", "photo-exhibit", "edge-node",
   "custom", "waypoint", "intersection", "entrance", "table", "vip-table"}

\* the requested table between two nodes of any types; the last node is the
\* right and lower extreme of the layout
PaintLayouts ==
  { << TableNode("t", "table", <<"T", " ", "5">>, 50, 25),
       TableNode("a", ta, <<"1", "2">>, 0, 0),
       TableNode("b", tb, <<"7">>, 100, 50) >> :
      ta \in PaintTypes, tb \in PaintTypes }

InitPaint ==
  \E nodes \in PaintLayouts :
    Holds(LoadedWith(nodes, [seatId |-> QInt(5), seatIds |-> <<>>], "undefined", TRUE, FALSE))

\* redraws: the surface changes, the selection changes
NextPaint ==
  \/ ToggleFullscreen
  \/ \E req \in Requests : SetProps(req, isVip, attendeeName, autoFullscreenOnSeatChange)

SpecPaint == InitPaint /\ [][NextPaint]_vars

----------------------------------------------------------------------------
(* Properties *)

surfacePoint(c) ==
  <<QSub(c[1], QInt(canvasRect(isFullscreen).left)),
    QSub(c[2], QInt(canvasRect(isFullscreen).top))>>

\* the zoom a call asks for lies inside the clamp range
Unclamped(z, factor) ==
  QLe(MIN_ZOOM, QMul(z, factor)) /\ QLe(QMul(z, factor), MAX_ZOOM)

\* (P - pan) / zoom on both axes
worldUnder(P, z, pn) == <<QDiv(QSub(P[1], pn[1]), z), QDiv(QSub(P[2], pn[2]), z)>>

\* C2: zoom-to-point on the viewport state: whenever zoomAtPoint(f, P) is
\* applied to a camera (zOld, panOld) with 0.5 <= zOld * f <= 4, the new
\* camera satisfies (P - panNew) / zNew = (P - panOld) / zOld on both axes.
ZoomToPoint ==
  [][ (lastEvent'.kind = "zoomAtPoint" /\ Unclamped(zoom, lastEvent'.f))
        => worldUnder(surfacePoint(lastEvent'.pt), zoom', pan')
             = worldUnder(surfacePoint(lastEvent'.pt), zoom, pan) ]_vars

\* a call inside the clamp range that changed both zoom and pan
ZoomToPointWitness ==
  /\ lastEvent.kind = "zoomAtPoint"
  /\ Unclamped(lastEvent.prev[1], lastEvent.f)
  /\ zoom = QMul(lastEvent.prev[1], lastEvent.f)
  /\ zoom # lastEvent.prev[1]
  /\ pan # lastEvent.prev[2]

\* C3: zoom-to-point for what is painted: for every device pixel ratio, the
\* point the draw effect paints at the cursor's surface position before
\* zoomAtPoint(f, cursor) is the point it paints there after the call.
PaintedZoomToPoint ==
  [][ (lastEvent'.kind = "zoomAtPoint" /\ Unclamped(zoom, lastEvent'.f))
        => paintedUnder(surfacePoint(lastEvent'.pt), zoom', pan', dpr')
             = paintedUnder(surfacePoint(lastEvent'.pt), zoom, pan, dpr) ]_vars

\* C4: clamp idempotence: at zoom 4 a zoomAtPoint with a factor above 1, and
\* at zoom 0.5 one with a factor below 1, leaves zoom and pan as they were,
\* however often it is repeated.
ClampIdempotence ==
  [][ ( /\ lastEvent'.kind = "zoomAtPoint"
        /\ \/ (zoom = MAX_ZOOM /\ QLt(QInt(1), lastEvent'.f))
           \/ (zoom = MIN_ZOOM /\ QLt(lastEvent'.f, QInt(1))) )
        => (zoom' = zoom /\ pan' = pan) ]_vars

\* a zoom-in call was applied to a camera pinned at 4 and away from the origin
ClampIdempotenceWitness ==
  /\ lastEvent.kind = "zoomAtPoint"
  /\ lastEvent.prev[1] = MAX_ZOOM
  /\ lastEvent.prev[2] # <<QInt(0), QInt(0)>>
  /\ QLt(QInt(1), lastEvent.f)
  /\ zoom = MAX_ZOOM
  /\ pan = lastEvent.prev[2]

\* C5: whenever the canvas is displayed, a wheel listener is attached to the
\* container that is displayed, so that every wheel event is handled.
WheelHandlerAttached ==
  hasCanvas(Cur) => wheelListener = displayedContainer(Cur)

\* separation of the first two tracked pointers
separation(ptrs) == Hypot(ptrs[2].x - ptrs[1].x, ptrs[2].y - ptrs[1].y)

\* C6: after every pointer down and every pointer up / cancel / leave the
\* session is determined by the number n of tracked pointers: n = 0, neither
\* drag owner nor pinch distance; n = 1, that pointer owns the drag from its
\* current position and no pinch distance; n = 2, no drag owner and the pinch
\* distance is the separation of the two; n > 2, no drag owner.
PointerSessionInvariant ==
  lastEvent.kind \in {"pointerDown", "endPointer"} =>
    LET n == Len(pointersRef)
    IN  /\ n = 0 => /\ dragPointerIdRef = Null
                    /\ lastDragPosRef = NullPos
                    /\ lastPinchDistanceRef = Null
        /\ n = 1 => /\ dragPointerIdRef = pointersRef[1].id
                    /\ lastDragPosRef = <<pointersRef[1].x, pointersRef[1].y>>
                    /\ lastPinchDistanceRef = Null
        /\ n = 2 => /\ dragPointerIdRef = Null
                    /\ lastPinchDistanceRef = separation(pointersRef)
        /\ n > 2 => dragPointerIdRef = Null

\* C7: drag-to-pinch handover: when a second pointer is pressed while one
\* tracked pointer owns the drag, both are tracked from that event on, the
\* drag has no owner and the pinch distance is their separation at the press.
DragToPinchHandover ==
  [][ ( /\ lastEvent'.kind = "pointerDown"
        /\ Len(pointersRef) = 1
        /\ dragPointerIdRef = pointersRef[1].id )
        => ( /\ Len(pointersRef') = 2
             /\ dragPointerIdRef' = Null
             /\ lastPinchDistanceRef' = separation(pointersRef') ) ]_vars

\* C8: pinch-to-drag handover: a release that leaves exactly one tracked
\* pointer makes it the drag owner at its last recorded position, with no
\* pinch distance and the camera untouched; the next move then leaves zoom
\* alone and adds PAN_SPEED times the displacement from that position to pan.
PinchToDragHandover ==
  [][ /\ (lastEvent'.kind = "endPointer" /\ Len(pointersRef') = 1)
        => /\ dragPointerIdRef' = pointersRef'[1].id
           /\ lastDragPosRef' = <<pointersRef'[1].x, pointersRef'[1].y>>
           /\ lastPinchDistanceRef' = Null
           /\ zoom' = zoom /\ pan' = pan
      /\ ( /\ lastEvent.kind = "endPointer" /\ Len(pointersRef) = 1
           /\ lastEvent'.kind = "pointerMove" )
        => /\ zoom' = zoom
           /\ pan' = <<QAdd(pan[1], QMul(PAN_SPEED,
                          QInt(pointersRef'[1].x - pointersRef[1].x))),
                       QAdd(pan[2], QMul(PAN_SPEED,
                          QInt(pointersRef'[1].y - pointersRef[1].y)))>> ]_vars

\* one of two tracked pointers was released after a pinch had zoomed, and the
\* other one now owns the drag
PinchToDragHandoverWitness ==
  /\ lastEvent.kind = "endPointer"
  /\ lastEvent.n = 2
  /\ Len(pointersRef) = 1
  /\ dragPointerIdRef = pointersRef[1].id
  /\ lastDragPosRef = <<pointersRef[1].x, pointersRef[1].y>>
  /\ zoom # QInt(1)

\* drag move, pinch move, wheel, touch double tap, double click, zoom buttons
ManualCameraKinds ==
  {"pointerMove", "wheel", "pointerDown", "doubleClick", "zoomIn", "zoomOut"}

\* C9: a manual pan or zoom performed while the one-shot auto-center flag is
\* pending clears the flag, whichever manual camera input it is.
ManualInputClearsAutoCenter ==
  [][ ( /\ shouldAutoCenterRef
        /\ lastEvent'.kind \in ManualCameraKinds
        /\ (zoom' # zoom \/ pan' # pan) )
        => ~shouldAutoCenterRef' ]_vars

\* the node of the layout that a frame entry paints
nodeOf(entry) ==
  venueNodes[CHOOSE i \in 1 .. Len(venueNodes) : venueNodes[i].id = entry.id]

\* the node's label carries one of the requested numbers
carriesRequested(node) ==
  LET ids == selectedSeatIds(seatId, seatIds)
  IN  \E k \in 1 .. Len(ids) : firstDigitRun(node.label) = String(ids[k])

\* C10: selection matching by mode: the highlighted nodes are exactly the
\* nodes carrying a requested number whose type is vip-table when isVip is
\* true, table when it is false, table or vip-table when it is not given;
\* the not-found error is shown exactly when no node is highlighted.
SelectionByMode ==
  /\ \A i \in 1 .. Len(frame) :
       frame[i].highlight <=>
         /\ carriesRequested(nodeOf(frame[i]))
         /\ \/ (isVip = "true" /\ nodeOf(frame[i]).type = "vip-table")
            \/ (isVip = "false" /\ nodeOf(frame[i]).type = "table")
            \/ (isVip = "undefined" /\ nodeOf(frame[i]).type \in {"table", "vip-table"})
  /\ (hasCanvas(Cur) /\ hasSelectedSeats(selectedSeatIds(seatId, seatIds)))
       => (error = NoError <=> \E i \in 1 .. Len(frame) : frame[i].highlight)

\* unrestricted mode: a highlighted vip-table next to an entrance that
\* carries a requested number and is not highlighted
SelectionByModeWitness ==
  /\ isVip = "undefined"
  /\ Len(frame) = 2
  /\ \E i, j \in 1 .. 2 :
       /\ frame[i].glyph = "vip-table" /\ frame[i].highlight
       /\ frame[j].glyph = "entrance" /\ ~frame[j].highlight
       /\ carriesRequested(nodeOf(frame[j]))

\* the ids requested by the current props
requestedIds ==
  LET ids == selectedSeatIds(seatId, seatIds)
  IN  {ids[k] : k \in 1 .. Len(ids)}

\* the node carries a requested number and has a type the current mode allows
matchesRequest(node) ==
  /\ carriesRequested(node)
  /\ \/ (isVip = "true" /\ node.type = "vip-table")
     \/ (isVip = "false" /\ node.type = "table")
     \/ (isVip = "undefined" /\ node.type \in {"table", "vip-table"})

noNodeMatches == \A i \in 1 .. Len(venueNodes) : ~matchesRequest(venueNodes[i])

GenericNoMatch == [msg |-> "No matching tables found for selected seats", id |-> Null]

\* C11: not-found messaging: on a loaded layout, when ids are requested and
\* no node of an allowed type matches, the error names the requested id when
\* exactly one id is requested, with one phrasing per mode, and is the generic
\* no-matching-tables message when two or more ids are requested.
NotFoundMessaging ==
  (hasCanvas(Cur) /\ requestedIds # {} /\ noNodeMatches) =>
    IF Cardinality(requestedIds) = 1
    THEN /\ error.id \in requestedIds
         /\ isVip = "true" => error.msg = "VIP table ${id} not found"
         /\ isVip = "false" => error.msg = "Table ${id} not found"
         /\ isVip = "undefined" => error.msg = "No VIP or regular table ${id} found"
    ELSE error = GenericNoMatch

\* regular-only mode, table 12 requested twice over (12 and 12.5) against a
\* layout whose only node numbered 12 is a vip-table: the singular message
NotFoundMessagingWitness ==
  /\ isVip = "false"
  /\ Len(seatIds) = 2
  /\ requestedIds = {12}
  /\ \E i \in 1 .. Len(venueNodes) :
       venueNodes[i].type = "vip-table" /\ carriesRequested(venueNodes[i])
  /\ error = [msg |-> "Table ${id} not found", id |-> 12]

\* C12: the NoMatch error is derived from the current inputs: on a loaded
\* layout the error is a NoMatch exactly when ids are requested and no node
\* matches under the current mode, and it is none otherwise, also after the
\* selection was changed to a matching one or cleared to empty.
NoMatchIsDerived ==
  hasCanvas(Cur) =>
    (error # NoError <=> (requestedIds # {} /\ noNodeMatches))

\* the errors set by loadVenueData
DataUnavailableErrors ==
  { [msg |-> "No venue map configured", id |-> Null],
    [msg |-> "Failed to load venue map", id |-> Null] }

\* C13: a failed fetch is terminal: once the fetch has completed it is never
\* issued again; an error set by loadVenueData goes with an empty layout; and
\* once the viewer is without nodes it stays so through every later selection
\* or mode change, with its error state as the fetch left it (not replaced by
\* a not-found message, not cleared) and with no node highlighted.
FailedFetchTerminal ==
  [][ /\ ~isLoading => (~isLoading' /\ lastEvent'.kind # "load")
      /\ error' \in DataUnavailableErrors => venueNodes' = <<>>
      /\ (~isLoading /\ venueNodes = <<>>) =>
           /\ venueNodes' = <<>>
           /\ error' = error
           /\ \A i \in 1 .. Len(frame') : ~frame'[i].highlight ]_vars

\* after a rejected fetch the host moved the request from nothing or table 5
\* to table 99, which the validate effect would report as not found
FailedFetchTerminalWitness ==
  /\ lastEvent.kind = "props"
  /\ lastEvent.prev.key # <<"9", "9">>
  /\ requestedIds = {99}
  /\ ~isLoading
  /\ error = [msg |-> "Failed to load venue map", id |-> Null]

\* the selection key of the current props
currentKey == seatKey(selectedSeatIds(seatId, seatIds))

Origin == <<QInt(0), QInt(0)>>

\* C14: auto-fullscreen entry: when the host delivers a new selection key
\* while the capability is enabled, the viewer is in fullscreen marked
\* automatic, whatever the view mode was, with zoom 1 and either pan (0,0)
\* and the auto-center flag pending, or the flag already consumed by the
\* auto-center on a matching node; while the capability is disabled a
\* selection change leaves view mode, zoom, pan and the flag as they were.
AutoFullscreenEntry ==
  [][ (lastEvent'.kind = "props" /\ currentKey' # currentKey) =>
        /\ ( /\ autoFullscreenOnSeatChange /\ autoFullscreenOnSeatChange'
             /\ currentKey' # <<>> ) =>
               /\ isFullscreen' /\ autoFullscreenRef'
               /\ zoom' = QInt(1)
               /\ \/ (pan' = Origin /\ shouldAutoCenterRef')
                  \/ (~shouldAutoCenterRef' /\ hasCanvas(Cur)' /\ ~noNodeMatches')
        /\ (~autoFullscreenOnSeatChange /\ ~autoFullscreenOnSeatChange') =>
               /\ isFullscreen' = isFullscreen
               /\ zoom' = zoom /\ pan' = pan
               /\ shouldAutoCenterRef' = shouldAutoCenterRef ]_vars

\* C15: re-issuing the current id set, in whatever order the ids are given,
\* neither enters fullscreen nor resets zoom or pan nor arms or runs the
\* auto-center, also after the user has closed the automatic fullscreen.
SameSelectionNoReentry ==
  [][ (lastEvent'.kind = "props" /\ requestedIds' = requestedIds) =>
        /\ isFullscreen' = isFullscreen
        /\ autoFullscreenRef' = autoFullscreenRef
        /\ zoom' = zoom /\ pan' = pan
        /\ shouldAutoCenterRef' = shouldAutoCenterRef ]_vars

\* C16: with the capability enabled, every change of the requested id set to
\* a non-empty set is an auto-fullscreen entry (fullscreen marked automatic,
\* zoom back at 1, auto-center armed or already run), whether the set before
\* was another non-empty set or the empty set.
EverySelectionChangeEnters ==
  [][ ( /\ lastEvent'.kind = "props"
        /\ autoFullscreenOnSeatChange /\ autoFullscreenOnSeatChange'
        /\ requestedIds' # requestedIds
        /\ requestedIds' # {} ) =>
        /\ isFullscreen' /\ autoFullscreenRef'
        /\ zoom' = QInt(1)
        /\ shouldAutoCenterRef' \/ (hasCanvas(Cur)' /\ ~noNodeMatches') ]_vars

\* the first node of the layout that matches the request
firstMatch ==
  venueNodes[CHOOSE i \in 1 .. Len(venueNodes) :
               /\ matchesRequest(venueNodes[i])
               /\ \A j \in 1 .. (i - 1) : ~matchesRequest(venueNodes[j])]

\* the first matching node's base-transform position p satisfies
\* p * zoom + pan = (surface width / 2, surface height / 2)
seatCentered ==
  LET rect == canvasRect(isFullscreen)
      p == toCanvas(firstMatch.x, firstMatch.y,
                    baseTransform(venueNodes, rect.width, rect.height))
  IN  /\ QAdd(QMul(p[1], zoom), pan[1]) = Q(rect.width, 2)
      /\ QAdd(QMul(p[2], zoom), pan[2]) = Q(rect.height, 2)

\* C17: auto-center result: after an auto-fullscreen trigger on a loaded
\* layout with a matching node the auto-center has been applied, zoom is 1
\* and the first matching node sits at the centre of the surface, whether
\* the trigger came in embedded mode or in fullscreen at any zoom level.
AutoCenterResult ==
  ( /\ lastEvent.kind = "props"
    /\ autoFullscreenOnSeatChange
    /\ prevSeatKeyRef # lastEvent.prev.entered
    /\ hasCanvas(Cur) /\ ~noNodeMatches ) =>
      /\ ~shouldAutoCenterRef
      /\ zoom = QInt(1)
      /\ seatCentered

\* C18: auto-center is one-shot and fullscreen-only: an event applies it only
\* if the flag was pending when the event arrived or a new selection key
\* armed it during the event, and applying it consumes the flag; it is
\* applied only in fullscreen and only with a matching node; an event of the
\* host (mode change, re-render) that neither enters fullscreen nor applies
\* it leaves the pan as it was.
AutoCenterOneShot ==
  [][ /\ lastEvent'.centered =>
           /\ shouldAutoCenterRef \/ prevSeatKeyRef' # prevSeatKeyRef
           /\ ~shouldAutoCenterRef'
           /\ isFullscreen'
           /\ ~noNodeMatches'
      /\ ( /\ lastEvent'.kind = "props"
           /\ ~lastEvent'.centered
           /\ prevSeatKeyRef' = prevSeatKeyRef ) => pan' = pan ]_vars

\* in automatic fullscreen with the flag consumed, the user has pressed 1:1
\* and the host then changed the mode: the matching table is not re-centred
AutoCenterOneShotWitness ==
  /\ lastEvent.kind = "props"
  /\ lastEvent.prev.key = currentKey
  /\ ~lastEvent.centered
  /\ isFullscreen /\ autoFullscreenRef /\ ~shouldAutoCenterRef
  /\ isVip = "true"
  /\ ~noNodeMatches
  /\ pan = Origin
  /\ ~seatCentered

\* C19: closing a fullscreen view that was entered automatically gives the
\* embedded view with zoom 1, pan (0,0), the automatic mark cleared and the
\* auto-center flag cleared, whatever the user did to the camera before.
AutoFullscreenClose ==
  ( /\ lastEvent.kind = "toggle"
    /\ lastEvent.prev.isFullscreen
    /\ lastEvent.prev.auto ) =>
      /\ ~isFullscreen
      /\ zoom = QInt(1) /\ pan = Origin
      /\ ~autoFullscreenRef
      /\ ~shouldAutoCenterRef

\* an automatic fullscreen whose camera the user had moved was closed
AutoFullscreenCloseWitness ==
  /\ lastEvent.kind = "toggle"
  /\ cameraOps > 0
  /\ lastEvent.prev.isFullscreen
  /\ lastEvent.prev.auto
  /\ ~lastEvent.prev.atDefault
  /\ ~isFullscreen
  /\ zoom = QInt(1) /\ pan = Origin

\* C20: a manual fullscreen toggle leaves the camera untouched: entering
\* fullscreen with the button keeps zoom and pan and marks the fullscreen as
\* not automatic, and closing a fullscreen that is not automatic keeps zoom
\* and pan.
ManualToggleKeepsCamera ==
  [][ (lastEvent'.kind = "toggle" /\ ~(isFullscreen /\ autoFullscreenRef)) =>
        /\ isFullscreen' = ~isFullscreen
        /\ zoom' = zoom /\ pan' = pan
        /\ ~autoFullscreenRef' ]_vars

\* drawing surfaces (CSS width, height) beside the two the viewer displays:
\* landscape, portrait, square, a strip, one pixel
SurfaceSizes == { <<80, 60>>, <<60, 40>>, <<30, 90>>, <<50, 50>>, <<100, 10>>, <<1, 1>> }

\* every node of the layout, base-transformed for a surface of the given
\* size, lies inside the surface at least margin * contentScale from each
\* edge, and both axes are scaled by contentScale
fitsSurface(nodes, cssWidth, cssHeight) ==
  LET bt  == baseTransform(nodes, cssWidth, cssHeight)
      pad == QMul(QInt(margin), bt.contentScale)
      at(i) == toCanvas(nodes[i].x, nodes[i].y, bt)
  IN  /\ \A i \in 1 .. Len(nodes) :
           /\ QLe(QInt(0), at(i)[1]) /\ QLe(at(i)[1], QInt(cssWidth))
           /\ QLe(QInt(0), at(i)[2]) /\ QLe(at(i)[2], QInt(cssHeight))
           /\ QLe(pad, at(i)[1]) /\ QLe(at(i)[1], QSub(QInt(cssWidth), pad))
           /\ QLe(pad, at(i)[2]) /\ QLe(at(i)[2], QSub(QInt(cssHeight), pad))
      /\ \A i, j \in 1 .. Len(nodes) :
           /\ QSub(at(i)[1], at(j)[1]) = QMul(bt.contentScale, QInt(nodes[i].x - nodes[j].x))
           /\ QSub(at(i)[2], at(j)[2]) = QMul(bt.contentScale, QInt(nodes[i].y - nodes[j].y))

\* C21: fit invariant: for every non-empty node set (wide, tall, a single
\* node) and every surface of positive width and height, the base transform
\* puts each loaded node inside the surface with the 40-unit margin kept on
\* every side, using one scale for both axes; at zoom 1 and pan (0,0) that is
\* where the drawing effect paints the node on the displayed surface.
FitInvariant ==
  hasCanvas(Cur) =>
    /\ \A size \in SurfaceSizes : fitsSurface(venueNodes, size[1], size[2])
    /\ LET rect == canvasRect(isFullscreen)
           bt   == baseTransform(venueNodes, rect.width, rect.height)
       IN  /\ fitsSurface(venueNodes, rect.width, rect.height)
           /\ (zoom = QInt(1) /\ pan = <<QInt(0), QInt(0)>>) =>
                \A i \in 1 .. Len(venueNodes) :
                  LET p == paintedAt(toCanvas(venueNodes[i].x, venueNodes[i].y, bt),
                                     zoom, pan, dpr)
                  IN  /\ QLe(QInt(0), p[1]) /\ QLe(p[1], QInt(rect.width))
                      /\ QLe(QInt(0), p[2]) /\ QLe(p[2], QInt(rect.height))

\* the wide layout on the fullscreen surface after the button was pressed:
\* the scale is set by the width (4/19), the left node sits exactly one
\* margin from the left edge and half-way down
FitInvariantWitness ==
  /\ lastEvent.kind = "toggle"
  /\ isFullscreen
  /\ zoom = QInt(1) /\ pan = <<QInt(0), QInt(0)>>
  /\ Len(venueNodes) = 2
  /\ venueNodes[2].x = 300
  /\ LET bt == baseTransform(venueNodes, 80, 60)
     IN  /\ bt.contentScale = Q(4, 19)
         /\ toCanvas(venueNodes[1].x, venueNodes[1].y, bt) = <<Q(160, 19), QInt(30)>>

\* the camera that zoomAtPoint makes of the current one when it is called
\* with factor = (separation of the first two tracked pointers after the
\* move) / (their separation before it) at their midpoint after the move
freshPinchCamera ==
  LET p1   == pointersRef'[1]
      p2   == pointersRef'[2]
      rect == canvasRect(isFullscreen)
  IN  zoomedCamera(zoom, pan,
                   Q(separation(pointersRef'), separation(pointersRef)),
                   QSub(Q(p1.x + p2.x, 2), QInt(rect.left)),
                   QSub(Q(p1.y + p2.y, 2), QInt(rect.top)))

\* C22: pinch tracking uses the first two tracked pointers and never a stale
\* distance: a move while two or more pointers are tracked zooms by (the
\* separation of the first two after the move) / (their separation before
\* it); hence a move that leaves the first two where they were (a third
\* pointer moving) changes neither zoom nor pan, and after one of three
\* pointers was released the next move of the remaining two zooms by the
\* ratio of their own separations.
PinchFactorFresh ==
  [][ lastEvent'.kind = "pointerMove" =>
        /\ ( /\ Len(pointersRef) >= 2
             /\ separation(pointersRef) # 0
             /\ separation(pointersRef') # 0 )
           => (zoom' = freshPinchCamera.zoom /\ pan' = freshPinchCamera.pan)
        /\ ( /\ Len(pointersRef) >= 3
             /\ pointersRef'[1] = pointersRef[1]
             /\ pointersRef'[2] = pointersRef[2] )
           => (zoom' = zoom /\ pan' = pan)
        /\ ( /\ lastEvent.kind = "endPointer" /\ lastEvent.n = 3
             /\ Len(pointersRef) = 2
             /\ separation(pointersRef) # 0
             /\ separation(pointersRef') = separation(pointersRef) )
           => (zoom' = zoom /\ pan' = pan) ]_vars

\* the camera found by the last wheel event, zoomed by factor at its cursor
wheelStep(factor) ==
  LET P == surfacePoint(lastEvent.pt)
  IN  zoomedCamera(lastEvent.prev[1], lastEvent.prev[2], factor, P[1], P[2])

\* a wheel step out delivered now at the cursor of the last wheel event
wheelBack ==
  handleWheelNative(Cur, [deltaY |-> 1, clientX |-> lastEvent.pt[1][1],
                          clientY |-> lastEvent.pt[2][1]])

\* neither the last wheel step in nor a step out from the camera it left
\* reaches the clamp
wheelAwayFromClamp ==
  /\ Unclamped(lastEvent.prev[1], Q(108, 100))
  /\ Unclamped(zoom, Q(92, 100))
  /\ Unclamped(zoom, Q(100, 108))

\* C23: wheel zoom factors: a wheel event with deltaY < 0 applies zoomAtPoint
\* with factor 1.08 at the cursor and one with deltaY > 0 applies factor
\* 1/1.08 at the cursor, so that, away from the clamp, a wheel step in
\* followed by a wheel step out at the same cursor restores zoom and pan.
WheelStepsReciprocal ==
  lastEvent.kind = "wheel" =>
    /\ lastEvent.deltaY < 0 =>
         /\ zoom = wheelStep(Q(108, 100)).zoom /\ pan = wheelStep(Q(108, 100)).pan
         /\ wheelAwayFromClamp =>
              (wheelBack.zoom = lastEvent.prev[1] /\ wheelBack.pan = lastEvent.prev[2])
    /\ lastEvent.deltaY > 0 =>
         /\ zoom = wheelStep(Q(100, 108)).zoom
         /\ pan = wheelStep(Q(100, 108)).pan

\* C23 as the code has it: deltaY < 0 applies factor 1.08 and deltaY > 0
\* applies factor 0.92 at the cursor; away from the clamp a step in followed
\* by a step out at the same cursor leaves zoom at 1.08 * 0.92 = 0.9936 times
\* the original, with the point under the cursor where it was.
WheelStepFactors ==
  lastEvent.kind = "wheel" =>
    /\ lastEvent.deltaY < 0 =>
         /\ zoom = wheelStep(Q(108, 100)).zoom /\ pan = wheelStep(Q(108, 100)).pan
         /\ wheelAwayFromClamp =>
              /\ wheelBack.zoom = QMul(lastEvent.prev[1], Q(9936, 10000))
              /\ worldUnder(surfacePoint(lastEvent.pt), wheelBack.zoom, wheelBack.pan)
                   = worldUnder(surfacePoint(lastEvent.pt),
                                lastEvent.prev[1], lastEvent.prev[2])
    /\ lastEvent.deltaY > 0 =>
         /\ zoom = wheelStep(Q(92, 100)).zoom
         /\ pan = wheelStep(Q(92, 100)).pan

\* a wheel step out at a cursor away from the surface origin took the camera
\* from zoom 5/4 to 23/20 and moved the pan
WheelStepFactorsWitness ==
  /\ lastEvent.kind = "wheel"
  /\ lastEvent.deltaY > 0
  /\ lastEvent.pt = <<QInt(10), QInt(60)>>
  /\ lastEvent.prev[1] = Q(5, 4)
  /\ zoom = Q(23, 20)
  /\ pan # lastEvent.prev[2]

\* C24: single-pointer drag: while exactly one pointer is tracked and owns
\* the drag, each of its moves adds 1.2 times (its new position - its position
\* at its previous move or press) to pan and leaves zoom unchanged; a move of
\* a pointer that is not tracked (never pressed, or released) leaves the
\* tracked positions, pan and zoom as they were.
DragPansBySpeed ==
  [][ lastEvent'.kind = "pointerMove" =>
        /\ ( /\ Len(pointersRef) = 1
             /\ dragPointerIdRef = pointersRef[1].id )
           => /\ zoom' = zoom
              /\ pan' = <<QAdd(pan[1], QMul(Q(12, 10),
                             QInt(pointersRef'[1].x - pointersRef[1].x))),
                          QAdd(pan[2], QMul(Q(12, 10),
                             QInt(pointersRef'[1].y - pointersRef[1].y)))>>
        /\ ( /\ Len(pointersRef) <= 1
             /\ pointersRef' = pointersRef )
           => (zoom' = zoom /\ pan' = pan) ]_vars

\* the mouse, pressed at (10, 20) on the auto-centered view, was dragged to
\* (19, 20): pan.x went from -200/9 to -200/9 + 1.2 * 9
DragPansBySpeedWitness ==
  /\ lastEvent.kind = "pointerMove"
  /\ lastEvent.n = 1
  /\ Len(pointersRef) = 1
  /\ dragPointerIdRef = pointersRef[1].id
  /\ lastDragPosRef = <<19, 20>>
  /\ zoom = QInt(1)
  /\ pan = <<Q(-514, 45), Q(100, 9)>>

\* the camera zoomed by 1.15 at the client point of the event being delivered
tapZoomed ==
  LET P == surfacePoint(lastEvent'.pt)
  IN  zoomedCamera(zoom, pan, Q(115, 100), P[1], P[2])

\* the press being delivered lies less than 300 ms and less than 30 px from
\* the recorded tap
nearRecordedTap ==
  /\ lastTapTimeRef # Null
  /\ lastTapPosRef # NullPos
  /\ now - lastTapTimeRef < 300
  /\ LET dx == lastEvent'.pt[1][1] - lastTapPosRef[1]
         dy == lastEvent'.pt[2][1] - lastTapPosRef[2]
     IN  dx * dx + dy * dy < 30 * 30

\* C25: double-tap detection: a touch press is a double tap, zooming by 1.15
\* at the tap position, exactly when it comes within 300 ms and within 30 px
\* of the previously recorded tap; otherwise it records itself as the last
\* tap and leaves zoom and pan alone. A mouse double click always zooms by
\* 1.15 at the click position.
DoubleTapDetection ==
  [][ /\ (lastEvent'.kind = "pointerDown" /\ lastEvent'.pointerType = "touch") =>
           IF nearRecordedTap
           THEN zoom' = tapZoomed.zoom /\ pan' = tapZoomed.pan
           ELSE /\ lastTapTimeRef' = now
                /\ lastTapPosRef' = <<lastEvent'.pt[1][1], lastEvent'.pt[2][1]>>
                /\ zoom' = zoom /\ pan' = pan
      /\ lastEvent'.kind = "doubleClick" =>
           (zoom' = tapZoomed.zoom /\ pan' = tapZoomed.pan) ]_vars

\* a finger came down at (19, 20) right after a tap had been recorded 9 px
\* away: the press zoomed the auto-centered view to 1.15 and is not tracked
DoubleTapDetectionWitness ==
  /\ lastEvent.kind = "pointerDown"
  /\ lastEvent.pointerType = "touch"
  /\ lastEvent.pt = <<QInt(19), QInt(20)>>
  /\ zoom = Q(115, 100)
  /\ lastTapTimeRef = Null
  /\ ~hasPointer(pointersRef, 2)

\* the value of one digit character
digitValue(ch) == (CHOOSE i \in 1 .. 10 : DigitChars[i] = ch) - 1

RECURSIVE numberOf(_)
\* the number that a non-empty run of digits denotes
numberOf(run) ==
  IF Len(run) = 1 THEN digitValue(run[1])
  ELSE 10 * numberOf(SubSeq(run, 1, Len(run) - 1)) + digitValue(run[Len(run)])

\* the node has an allowed type and the number given by the first run of
\* digits in its label is one of the requested ids
matchesByNumber(node) ==
  /\ \/ (isVip = "true" /\ node.type = "vip-table")
     \/ (isVip = "false" /\ node.type = "table")
     \/ (isVip = "undefined" /\ node.type \in {"table", "vip-table"})
  /\ firstDigitRun(node.label) # <<>>
  /\ numberOf(firstDigitRun(node.label)) \in requestedIds

\* C26: canonical-number matching: a node of an allowed type is a match (it
\* is highlighted, and it keeps the not-found error away) if and only if the
\* number given by the first run of digits in its label is a member of the
\* requested id set; later runs are ignored, a label without digits never
\* matches, and an id that is only a prefix of the label's number does not.
CanonicalNumberMatching ==
  hasCanvas(Cur) =>
    /\ \A i \in 1 .. Len(frame) :
         frame[i].highlight <=> matchesByNumber(nodeOf(frame[i]))
    /\ requestedIds # {} =>
         (error = NoError <=>
            \E i \in 1 .. Len(venueNodes) : matchesByNumber(venueNodes[i]))

\* the layout is displayed in fullscreen and a requested id has a matching node
centerTargetAvailable ==
  /\ hasCanvas(Cur)
  /\ isFullscreen
  /\ requestedIds # {}
  /\ ~noNodeMatches

\* C27: liveness of the pending auto-center: when an automatic fullscreen
\* entry has armed the flag while the fetch is outstanding, the fetch ends
\* and then the flag is no longer pending unless the layout is empty or no
\* requested id has a matching node; the flag is never left pending while a
\* target is available (it stays pending only until a matching node exists,
\* a gesture or the 1:1 button clears it, or the view is closed), and once
\* the auto-center has been applied the flag is clear, so it is applied once.
PendingAutoCenterLive ==
  /\ (isLoading /\ shouldAutoCenterRef) ~>
       (~isLoading /\ (~shouldAutoCenterRef \/ venueNodes = <<>> \/ noNodeMatches))
  /\ [](shouldAutoCenterRef => ~centerTargetAvailable)
  /\ [](lastEvent.centered => ~shouldAutoCenterRef)
  /\ [][ (isLoading /\ shouldAutoCenterRef /\ lastEvent'.kind = "load"
          /\ centerTargetAvailable') => lastEvent'.centered ]_vars

\* the fetch completed on a viewer that had entered fullscreen for table 5
\* while loading: the completing commit centered the table
PendingAutoCenterLiveWitness ==
  /\ lastEvent.kind = "load"
  /\ lastEvent.centered
  /\ isFullscreen /\ autoFullscreenRef
  /\ ~shouldAutoCenterRef
  /\ zoom = QInt(1)
  /\ pan = <<Q(-200, 9), Q(100, 9)>>

\* the frame entries that paint the node
entriesOf(node) == {i \in 1 .. Len(frame) : frame[i].id = node.id}

\* every node, painted or not, lies inside the content bounds of the
\* displayed surface: the bounding box was taken over all loaded nodes
boundsCoverAllNodes ==
  fitsSurface(venueNodes, canvasRect(isFullscreen).width, canvasRect(isFullscreen).height)

ViewModeFlagInvariant ==
  /\ shouldAutoCenterRef => autoFullscreenRef
  /\ autoFullscreenRef => isFullscreen
  /\ ~isFullscreen => (~shouldAutoCenterRef /\ ~autoFullscreenRef)
  /\ (lastEvent.kind = "toggle" /\ isFullscreen) =>
       (~shouldAutoCenterRef /\ ~autoFullscreenRef)

\* a seat change opened the automatic fullscreen on a loaded layout that has
\* no table for the seat: the auto-center stays pending, all three flags set
ViewModeFlagInvariantWitness ==
  /\ lastEvent.kind = "props"
  /\ ~isLoading
  /\ shouldAutoCenterRef
  /\ autoFullscreenRef
  /\ isFullscreen

\* two pointers are tracked and every move they make from here on is ignored:
\* the single-pointer branch needs one pointer and the pinch branch needs a
\* recorded distance that is not zero, which only the pinch branch replaces
pinchStuck ==
  /\ Len(pointersRef) = 2
  /\ lastPinchDistanceRef = 0

\* C30: while exactly two pointers are tracked, a move that changes their
\* separation to a non-zero value changes zoom unless the zoom is held by the
\* clamp, also when the second pointer was pressed on the position of the
\* first so that the recorded pinch distance is 0; and no state with two
\* tracked pointers ignores every later move.
PinchStartsAtZeroSeparation ==
  /\ [][ ( /\ lastEvent'.kind = "pointerMove"
           /\ Len(pointersRef) = 2
           /\ Len(pointersRef') = 2
           /\ separation(pointersRef') # 0
           /\ separation(pointersRef') # separation(pointersRef) )
         => \/ zoom' # zoom
            \/ (separation(pointersRef') > separation(pointersRef) /\ zoom = MAX_ZOOM)
            \/ (separation(pointersRef') < separation(pointersRef) /\ zoom = MIN_ZOOM) ]_vars
  /\ [] ~pinchStuck

====
